---- MODULE Spec2Model ----
(***************************************************************************)
(* The node modal of the graph view (src/features/modals/NodeModal):       *)
(* the read projection of the selected node (normalizeNodeData,            *)
(* jsonPathToString) and the edit workflow (Edit / Save / Cancel) that     *)
(* patches the name and color members of the selected node into the        *)
(* document with jsonc-parser's modify + applyEdits, publishes the text to *)
(* the json and file stores and reselects the node of the rebuilt graph.   *)
(*                                                                         *)
(* A document is modelled as its syntax tree: members in text order, the   *)
(* comment an object carries, array elements in order.  White space is not *)
(* modelled.  A JavaScript value is a record [t, v, m, e, c]: t its type,  *)
(* v the token of a scalar (the characters of a string, the numeral of a   *)
(* number), m the members of an object, e the elements of an array, c the  *)
(* comment kept inside an object's braces.                                 *)
(***************************************************************************)
EXTENDS Integers, Sequences, FiniteSets, TLC

VARIABLES
    json,          \* useJson: the published document
    contents,      \* useFile: the editor's contents
    hasChanges,    \* useFile: the unsaved-changes mark
    nodes,         \* useGraph: the nodes of the graph built from json
    selectedNode,  \* useGraph: the selection (nodeData of the component)
    opened,        \* the modal's opened prop
    editing,       \* React state of the component
    nameValue,     \* React state: the name draft
    colorValue,    \* React state: the color draft
    last,          \* history: the last handler that ran and what it did
    nodeRows,      \* the rows handed to normalizeNodeData
    rendered,      \* what normalizeNodeData returned for nodeRows
    pathArg,       \* the path handed to jsonPathToString and to the reselection
    graphIn,       \* the paths of the nodes the reselection searches
    pathOut        \* what jsonPathToString and the reselection returned

vars == <<json, contents, hasChanges, nodes, selectedNode, opened, editing,
          nameValue, colorValue, last, nodeRows, rendered, pathArg, graphIn,
          pathOut>>

(***************************************************************************)
(* Values, paths                                                           *)
(***************************************************************************)
JVal(t, v, m, e, c) == [t |-> t, v |-> v, m |-> m, e |-> e, c |-> c]
Undefined == JVal("undefined", "", <<>>, <<>>, "")
JNull == JVal("null", "null", <<>>, <<>>, "")
JStr(s) == JVal("string", s, <<>>, <<>>, "")
JNum(s) == JVal("number", s, <<>>, <<>>, "")
JBool(s) == JVal("boolean", s, <<>>, <<>>, "")
JObj(members, comment) == JVal("object", "", members, <<>>, comment)
JArr(elements) == JVal("array", "", <<>>, elements, "")
Member(k, val) == [k |-> k, val |-> val]

\* A path segment: an object key or an array index.
Key(s) == [num |-> FALSE, s |-> s, i |-> 0]
Idx(i) == [num |-> TRUE, s |-> "", i |-> i]

\* String(value) of JavaScript, for the scalars and undefined.
String(val) ==
    CASE val.t = "null" -> "null"
      [] val.t = "undefined" -> "undefined"
      [] val.t = "object" -> "[object Object]"
      [] val.t = "array" -> ""
      [] OTHER -> val.v

\* JSON.stringify of a scalar: a string is quoted, the others are their token.
StringifyScalar(val) ==
    IF val.t = "string" THEN "\"" \o val.v \o "\"" ELSE String(val)

Min(S) == CHOOSE x \in S : \A y \in S : x <= y

(***************************************************************************)
(* jsonc-parser, as the Save handler calls it                              *)
(***************************************************************************)
\* The index (1-based) of the first member of object node named k, 0 if none.
memberIndex(node, k) ==
    LET hits == {i \in 1..Len(node.m) : node.m[i].k = k}
    IN IF hits = {} THEN 0 ELSE Min(hits)

RECURSIVE findNodeAtLocation(_, _)
findNodeAtLocation(node, path) ==
    IF node.t = "undefined" THEN Undefined
    ELSE IF path = <<>> THEN node
    ELSE LET seg == Head(path) IN
         IF ~seg.num
         THEN IF node.t # "object" \/ memberIndex(node, seg.s) = 0
              THEN Undefined
              ELSE findNodeAtLocation(node.m[memberIndex(node, seg.s)].val, Tail(path))
         ELSE IF node.t # "array" \/ seg.i < 0 \/ seg.i >= Len(node.e)
              THEN Undefined
              ELSE findNodeAtLocation(node.e[seg.i + 1], Tail(path))

\* The text with the node at path (which resolves) replaced by new; nothing
\* else of the text is touched by the edit.
RECURSIVE replaceNode(_, _, _)
replaceNode(node, path, new) ==
    IF path = <<>> THEN new
    ELSE LET seg == Head(path) IN
         IF ~seg.num
         THEN LET i == memberIndex(node, seg.s)
              IN [node EXCEPT !.m[i].val = replaceNode(@, Tail(path), new)]
         ELSE [node EXCEPT !.e[seg.i + 1] = replaceNode(@, Tail(path), new)]

\* The while loop of setProperty: pop segments until a parent is found, and
\* wrap the value in a new object or array for every segment without one.
RECURSIVE setPropertyWalk(_, _, _)
setPropertyWalk(root, path, value) ==
    IF path = <<>>
    THEN [found |-> FALSE, path |-> <<>>, lastSegment |-> Key(""), value |-> value]
    ELSE LET lastSegment == path[Len(path)]
             rest == SubSeq(path, 1, Len(path) - 1)
             parent == findNodeAtLocation(root, rest)
         IN IF parent.t = "undefined"
            THEN setPropertyWalk(root, rest,
                     IF ~lastSegment.num
                     THEN JObj(<<Member(lastSegment.s, value)>>, "")
                     ELSE JArr(<<value>>))
            ELSE [found |-> TRUE, path |-> rest, lastSegment |-> lastSegment,
                  value |-> value]

InsertAt(seq, index, x) ==
    SubSeq(seq, 1, index) \o <<x>> \o SubSeq(seq, index + 1, Len(seq))

\* applyEdits(text, modify(text, path, value, {formattingOptions})): the
\* patched text, or threw when modify throws.  The edit replaces the span of
\* an existing value or inserts after the last child; formatting touches the
\* edited lines only.
modify(root, path, value) ==
    LET w == setPropertyWalk(root, path, value)
        parent == findNodeAtLocation(root, w.path)
        seg == w.lastSegment
    IN IF ~w.found
       THEN [threw |-> FALSE, text |-> w.value]
       ELSE IF parent.t = "object" /\ ~seg.num
       THEN LET i == memberIndex(parent, seg.s) IN
            IF i # 0
            THEN [threw |-> FALSE,
                  text |-> replaceNode(root, w.path,
                               [parent EXCEPT !.m[i].val = w.value])]
            ELSE [threw |-> FALSE,
                  text |-> replaceNode(root, w.path,
                               [parent EXCEPT !.m = Append(@, Member(seg.s, w.value))])]
       ELSE IF parent.t = "array" /\ seg.num
       THEN IF seg.i = -1
            THEN [threw |-> FALSE,
                  text |-> replaceNode(root, w.path,
                               [parent EXCEPT !.e = Append(@, w.value)])]
            ELSE IF seg.i < 0
            THEN [threw |-> TRUE, text |-> root]
            ELSE IF Len(parent.e) > seg.i
            THEN [threw |-> FALSE,
                  text |-> replaceNode(root, w.path,
                               [parent EXCEPT !.e[seg.i + 1] = w.value])]
            ELSE IF Len(parent.e) = 0 \/ seg.i = 0
            THEN [threw |-> FALSE,
                  text |-> replaceNode(root, w.path,
                               [parent EXCEPT !.e = <<w.value>> \o @])]
            ELSE LET index == IF seg.i > Len(parent.e) THEN Len(parent.e) ELSE seg.i
                 IN [threw |-> FALSE,
                     text |-> replaceNode(root, w.path,
                                  [parent EXCEPT !.e = InsertAt(@, index, w.value)])]
       ELSE [threw |-> TRUE, text |-> root]

(***************************************************************************)
(* The graph store: the nodes built from the document                      *)
(***************************************************************************)
Row(hasKey, key, value, type) ==
    [hasKey |-> hasKey, key |-> key, value |-> value, type |-> type]

IsContainer(val) == val.t \in {"object", "array"}

\* The rows of an object: one per member, a nested container as a row of its
\* type with no scalar value.
rowsOfObject(obj) ==
    [i \in 1..Len(obj.m) |->
        IF IsContainer(obj.m[i].val)
        THEN Row(TRUE, obj.m[i].k, JNull, obj.m[i].val.t)
        ELSE Row(TRUE, obj.m[i].k, obj.m[i].val, obj.m[i].val.t)]

GraphNode(path, text) == [isNull |-> FALSE, path |-> path, text |-> text]
NoNode == [isNull |-> TRUE, path |-> <<>>, text |-> <<>>]

\* The nodes of the graph of a document, parents first: every object is a node
\* with its rows, every scalar that is not an object member is a node with one
\* row without a key, the elements of an array are nodes of their own.
RECURSIVE buildNodes(_, _)
RECURSIVE buildChildren(_, _, _)
buildNodes(val, path) ==
    CASE val.t = "object" ->
            <<GraphNode(path, rowsOfObject(val))>> \o buildChildren(val, path, 1)
      [] val.t = "array" -> buildChildren(val, path, 1)
      [] val.t = "undefined" -> <<>>
      [] OTHER -> <<GraphNode(path, <<Row(FALSE, "", val, val.t)>>)>>
buildChildren(val, path, i) ==
    IF val.t = "object"
    THEN IF i > Len(val.m) THEN <<>>
         ELSE (IF IsContainer(val.m[i].val)
               THEN buildNodes(val.m[i].val, Append(path, Key(val.m[i].k)))
               ELSE <<>>) \o buildChildren(val, path, i + 1)
    ELSE IF i > Len(val.e) THEN <<>>
         ELSE buildNodes(val.e[i], Append(path, Idx(i - 1)))
                  \o buildChildren(val, path, i + 1)

setGraph(doc) == buildNodes(doc, <<>>)

(***************************************************************************)
(* The component                                                           *)
(***************************************************************************)
\* String.prototype.toLowerCase on the keys of the documents.
toLowerCase(s) ==
    CASE s = "Name" -> "name"
      [] s = "NAME" -> "name"
      [] s = "Color" -> "color"
      [] s = "COLOR" -> "color"
      [] OTHER -> s

\* String(r.key): a row without a key has the key undefined.
keyString(r) == IF r.hasKey THEN r.key ELSE "undefined"

\* Array.prototype.find on the rows: the first row whose lower-cased key is
\* field, or no row.
findRow(text, field) ==
    LET hits == {i \in 1..Len(text) : toLowerCase(keyString(text[i])) = field}
    IN IF hits = {} THEN [found |-> FALSE, row |-> Row(FALSE, "", Undefined, "null")]
       ELSE [found |-> TRUE, row |-> text[Min(hits)]]

\* A faulty fieldFromRows: the value of the row is turned into a string even
\* when it is null.
fieldFromRowsNullAsText(text, field) ==
    LET r == findRow(text, field)
    IN IF r.found THEN String(r.row.value) ELSE ""

\* The value the effect gives a draft field from the rows of the node.
fieldFromRows(text, field) ==
    LET r == findRow(text, field)
    IN IF r.found /\ r.row.value.t \notin {"null", "undefined"}
       THEN String(r.row.value)
       ELSE ""

\* JSON.stringify of a string escapes the quotes inside it (the keys that occur
\* here hold no other character that is escaped).
escapeJson(s) ==
    CASE s = "a\",\"a" -> "a\\\",\\\"a"
      [] OTHER -> s

\* A faulty JSON.stringify of a path: the quotes inside a key are not escaped.
RECURSIVE joinSegmentsRaw(_)
joinSegmentsRaw(path) ==
    IF path = <<>> THEN ""
    ELSE (IF Head(path).num THEN ToString(Head(path).i)
          ELSE "\"" \o Head(path).s \o "\"")
         \o (IF Len(path) > 1 THEN "," ELSE "")
         \o joinSegmentsRaw(Tail(path))
stringifyPathRaw(path) == "[" \o joinSegmentsRaw(path) \o "]"

\* JSON.stringify of a path.
RECURSIVE joinSegments(_)
joinSegments(path) ==
    IF path = <<>> THEN ""
    ELSE (IF Head(path).num THEN ToString(Head(path).i)
          ELSE "\"" \o escapeJson(Head(path).s) \o "\"")
         \o (IF Len(path) > 1 THEN "," ELSE "")
         \o joinSegments(Tail(path))
stringifyPath(path) == "[" \o joinSegments(path) \o "]"

\* A faulty findMatched: takes the first node of the rebuilt graph, whatever
\* its path.
findMatchedFirst(ns, targetPath) ==
    IF ns = <<>> THEN NoNode ELSE ns[1]

\* nodes.find(n => JSON.stringify(n.path) === JSON.stringify(targetPath))
findMatched(ns, targetPath) ==
    LET hits == {i \in 1..Len(ns) :
                    stringifyPath(ns[i].path) = stringifyPath(targetPath)}
    IN IF hits = {} THEN NoNode ELSE ns[Min(hits)]

\* typeof x === "string"
IsString(x) == x \in STRING

\* A path that may be undefined (nodeData?.path).
PathArg(defined, path) == [defined |-> defined, path |-> path]

\* path ?? []
orEmpty(arg) == IF arg.defined THEN arg.path ELSE <<>>

\* Array.prototype.join
RECURSIVE join(_, _)
join(texts, sep) ==
    IF texts = <<>> THEN ""
    ELSE IF Len(texts) = 1 THEN texts[1]
    ELSE texts[1] \o sep \o join(Tail(texts), sep)

\* seg => (typeof seg === "number" ? seg : `"${seg}"`)
segmentText(seg) ==
    IF seg.num THEN ToString(seg.i) ELSE "\"" \o seg.s \o "\""

\* A faulty jsonPathToString: the indexes are quoted like the keys.
jsonPathToStringQuoted(arg) ==
    IF ~arg.defined \/ Len(arg.path) = 0 THEN "$"
    ELSE "$[" \o join([k \in 1..Len(arg.path) |->
                          "\"" \o (IF arg.path[k].num
                                   THEN ToString(arg.path[k].i)
                                   ELSE arg.path[k].s) \o "\""], "][")
              \o "]"

\* jsonPathToString
jsonPathToString(arg) ==
    IF ~arg.defined \/ Len(arg.path) = 0 THEN "$"
    ELSE "$[" \o join([k \in 1..Len(arg.path) |-> segmentText(arg.path[k])],
                      "][")
              \o "]"

(***************************************************************************)
(* The documents explored and what the user types                          *)
(***************************************************************************)
\* {"name": "n0", /* c1 */ "items": [{"Name": "N", "x": 1}, 7, {"color": "blue"}]}
Doc1 ==
    JObj(<<Member("name", JStr("n0")),
           Member("items",
               JArr(<<JObj(<<Member("Name", JStr("N")), Member("x", JNum("1"))>>, ""),
                      JNum("7"),
                      JObj(<<Member("color", JStr("blue"))>>, "c2")>>))>>,
         "c1")
\* {"items": []}
Doc2 == JObj(<<Member("items", JArr(<<>>))>>, "")
\* {"name": null, "Color": "c", "color": "d"}
Doc3 ==
    JObj(<<Member("name", JNull), Member("Color", JStr("c")),
           Member("color", JStr("d"))>>, "")
Docs == {Doc1, Doc2, Doc3}

NameInputs == {"x"}
ColorInputs == {"red"}

\* The most commits that publish text in one behaviour.
MaxCommits == 2

\* The commits that have published text so far are counted in last.commits.
NoCommit(op, n) ==
    [op |-> op, out |-> "", json0 |-> Undefined, mid |-> Undefined,
     sel0 |-> NoNode, name0 |-> "", color0 |-> "", steps |-> <<>>,
     commits |-> n]

(***************************************************************************)
(* The state machine                                                       *)
(***************************************************************************)
Init ==
    /\ json \in Docs
    /\ contents = json
    /\ hasChanges = FALSE
    /\ nodes = setGraph(json)
    /\ selectedNode = NoNode
    /\ opened = FALSE
    /\ editing = FALSE
    /\ nameValue = ""
    /\ colorValue = ""
    /\ last = NoCommit("init", 0)
    /\ nodeRows = <<>>
    /\ rendered = [done |-> FALSE, code |-> ""]
    /\ pathArg = [defined |-> FALSE, path |-> <<>>]
    /\ graphIn = [path |-> <<>>, more |-> FALSE]
    /\ pathOut = [done |-> FALSE, code |-> "", same |-> FALSE, matched |-> NoNode]

\* React.useEffect(..., [nodeData, opened]) run for node nd: the drafts after it.
effectName(nd, old) == IF nd.isNull THEN old ELSE fieldFromRows(nd.text, "name")
effectColor(nd, old) == IF nd.isNull THEN old ELSE fieldFromRows(nd.text, "color")

stores == <<json, contents, hasChanges, nodes>>
probe == <<nodeRows, rendered, pathArg, graphIn, pathOut>>

\* The graph view reports a selection: the node is selected and the modal opens.
SelectNode(n) ==
    /\ selectedNode' = n
    /\ opened' = TRUE
    /\ nameValue' = effectName(n, nameValue)
    /\ colorValue' = effectColor(n, colorValue)
    /\ last' = NoCommit("SelectNode", last.commits)
    /\ UNCHANGED <<stores, editing, probe>>

\* The selection is cleared: the effect runs and returns at once.
ClearSelection ==
    /\ ~selectedNode.isNull
    /\ selectedNode' = NoNode
    /\ nameValue' = effectName(NoNode, nameValue)
    /\ colorValue' = effectColor(NoNode, colorValue)
    /\ last' = NoCommit("ClearSelection", last.commits)
    /\ UNCHANGED <<stores, opened, editing, probe>>

\* The opened prop changes (onClose, or the controller opens the modal): the
\* effect runs for the node selected.
SetOpened(b) ==
    /\ opened # b
    /\ opened' = b
    /\ nameValue' = effectName(selectedNode, nameValue)
    /\ colorValue' = effectColor(selectedNode, colorValue)
    /\ last' = NoCommit("SetOpened", last.commits)
    /\ UNCHANGED <<stores, selectedNode, editing, probe>>

\* Another writer of the document store (the editor) publishes text d: the graph
\* is rebuilt, the selection is not touched.
ExternalEdit(d) ==
    /\ d # json
    /\ json' = d
    /\ contents' = d
    /\ hasChanges' = TRUE
    /\ nodes' = setGraph(d)
    /\ last' = NoCommit("ExternalEdit", last.commits)
    /\ UNCHANGED <<selectedNode, opened, editing, nameValue, colorValue, probe>>

\* Edit onClick
Edit ==
    /\ opened /\ ~editing
    /\ editing' = TRUE
    /\ last' = NoCommit("Edit", last.commits)
    /\ UNCHANGED <<stores, selectedNode, opened, nameValue, colorValue, probe>>

\* Cancel onClick
Cancel ==
    /\ opened /\ editing
    /\ editing' = FALSE
    /\ last' = NoCommit("Cancel", last.commits)
    /\ UNCHANGED <<stores, selectedNode, opened, nameValue, colorValue, probe>>

\* TextInput onChange
SetNameValue(v) ==
    /\ opened /\ editing
    /\ nameValue' = v
    /\ last' = NoCommit("SetNameValue", last.commits)
    /\ UNCHANGED <<stores, selectedNode, opened, editing, colorValue, probe>>

\* ColorInput onChange
SetColorValue(v) ==
    /\ opened /\ editing
    /\ colorValue' = v
    /\ last' = NoCommit("SetColorValue", last.commits)
    /\ UNCHANGED <<stores, selectedNode, opened, editing, nameValue, probe>>

\* A faulty applyName: sets the node at basePath to an object holding the
\* name, instead of setting the name member of it.
applyNameWholeNode(updated, basePath, name) ==
    modify(updated, basePath, JObj(<<Member("name", JStr(name))>>, ""))

\* "update name if changed": the name edit, against the text so far.
applyName(updated, basePath, name) ==
    IF IsString(name)
    THEN modify(updated, Append(basePath, Key("name")), JStr(name))
    ELSE [threw |-> FALSE, text |-> updated]

\* "update color if changed": the color edit, against the text so far.
applyColor(updated, basePath, color) ==
    IF IsString(color)
    THEN modify(updated, Append(basePath, Key("color")), JStr(color))
    ELSE [threw |-> FALSE, text |-> updated]

\* A faulty patchedText: the color edit is computed against the text the
\* commit started with, not against the text the name edit patched.
patchedTextStaleSnapshot(text, nd, name, color) ==
    LET basePath == nd.path
        r1 == applyName(text, basePath, name)
        r2 == applyColor(text, basePath, color)
    IN IF r1.threw
       THEN [threw |-> TRUE, mid |-> Undefined, text |-> text,
             steps |-> <<"name">>]
       ELSE IF r2.threw
       THEN [threw |-> TRUE, mid |-> r1.text, text |-> text,
             steps |-> <<"name", "color">>]
       ELSE [threw |-> FALSE, mid |-> r1.text, text |-> r2.text,
             steps |-> <<"name", "color">>]

\* The try block of Save up to setJson: the text after each edit, or threw, and
\* the edits that were run (a throw leaves the block for the catch of line 132).
patchedText(text, nd, name, color) ==
    LET basePath == nd.path
        r1 == applyName(text, basePath, name)
        r2 == applyColor(r1.text, basePath, color)
    IN IF r1.threw
       THEN [threw |-> TRUE, mid |-> Undefined, text |-> text,
             steps |-> <<"name">>]
       ELSE IF r2.threw
       THEN [threw |-> TRUE, mid |-> r1.text, text |-> text,
             steps |-> <<"name", "color">>]
       ELSE [threw |-> FALSE, mid |-> r1.text, text |-> r2.text,
             steps |-> <<"name", "color">>]

\* A faulty reselect: the selection is never moved to the rebuilt graph.
reselectNever(ns, nd) == nd

\* A faulty reselect: a target path that no node has clears the selection.
reselectOrClear(ns, nd) == findMatched(ns, nd.path)

\* The selection after the reselect step of Save, on the rebuilt graph.
reselect(ns, nd) ==
    LET matched == findMatched(ns, nd.path)
    IN IF matched.isNull THEN nd ELSE matched

\* A faulty fileUpdate: the flag is left at the store's default, which marks
\* the contents as changed.
fileUpdateDirty(updated) == [contents |-> updated, hasChanges |-> TRUE]

\* The argument of useFile.getState().setContents: what the file store holds
\* after the call.
fileUpdate(updated) == [contents |-> updated, hasChanges |-> FALSE]

\* Save onClick
Save ==
    /\ opened /\ editing
    /\ last.commits < MaxCommits
    /\ IF selectedNode.isNull
       THEN /\ last' = [NoCommit("Save", last.commits) EXCEPT !.out = "noselection"]
            /\ UNCHANGED <<stores, selectedNode, opened, editing, nameValue,
                           colorValue, probe>>
       ELSE LET r == patchedText(json, selectedNode, nameValue, colorValue)
                h == [NoCommit("Save", last.commits) EXCEPT
                         !.json0 = json, !.mid = r.mid, !.sel0 = selectedNode,
                         !.name0 = nameValue, !.color0 = colorValue,
                         !.steps = r.steps]
            IN IF r.threw
               THEN /\ editing' = FALSE
                    /\ last' = [h EXCEPT !.out = "threw"]
                    /\ UNCHANGED <<stores, selectedNode, opened, nameValue,
                                   colorValue, probe>>
               ELSE /\ json' = r.text
                    /\ nodes' = setGraph(r.text)
                    /\ contents' = fileUpdate(r.text).contents
                    /\ hasChanges' = fileUpdate(r.text).hasChanges
                    /\ selectedNode' = reselect(nodes', selectedNode)
                    /\ nameValue' = IF findMatched(nodes', selectedNode.path).isNull
                                    THEN nameValue
                                    ELSE effectName(selectedNode', nameValue)
                    /\ colorValue' = IF findMatched(nodes', selectedNode.path).isNull
                                     THEN colorValue
                                     ELSE effectColor(selectedNode', colorValue)
                    /\ editing' = FALSE
                    /\ last' = [h EXCEPT !.out = "published",
                                         !.commits = last.commits + 1]
                    /\ UNCHANGED <<opened, probe>>

Next ==
    \/ \E n \in {nodes[i] : i \in 1..Len(nodes)} : SelectNode(n)
    \/ ClearSelection
    \/ \E b \in BOOLEAN : SetOpened(b)
    \/ \E d \in Docs : ExternalEdit(d)
    \/ Edit
    \/ Cancel
    \/ \E v \in NameInputs : SetNameValue(v)
    \/ \E v \in ColorInputs : SetColorValue(v)
    \/ Save

Spec == Init /\ [][Next]_vars

(***************************************************************************)
(* normalizeNodeData                                                       *)
(***************************************************************************)
\* !row.key: the key is undefined, null or the empty string.
keyIsFalsy(row) == ~row.hasKey \/ row.key = ""

\* obj[key] = value on an object kept as its members in insertion order.
assign(members, key, value) ==
    LET hits == {i \in 1..Len(members) : members[i].k = key}
    IN IF hits = {} THEN Append(members, Member(key, value))
       ELSE [members EXCEPT ![Min(hits)].val = value]

\* The forEach of normalizeNodeData over rows i..Len(rows), into obj.
RECURSIVE collectRows(_, _, _)
collectRows(rows, i, obj) ==
    IF i > Len(rows) THEN obj
    ELSE collectRows(rows, i + 1,
             IF rows[i].type # "array" /\ rows[i].type # "object"
                    /\ ~keyIsFalsy(rows[i])
             THEN assign(obj, rows[i].key, rows[i].value)
             ELSE obj)

\* JSON.stringify(obj, null, 2) of an object of scalars: a member whose value
\* is undefined is left out.
RECURSIVE stringifyMembers(_)
stringifyMembers(members) ==
    IF members = <<>> THEN ""
    ELSE "  \"" \o Head(members).k \o "\": " \o StringifyScalar(Head(members).val)
         \o (IF Len(members) > 1 THEN ",\n" ELSE "\n")
         \o stringifyMembers(Tail(members))
stringifyObject(members) ==
    LET kept == SelectSeq(members, LAMBDA mb : mb.val.t # "undefined")
    IN IF kept = <<>> THEN "{}" ELSE "{\n" \o stringifyMembers(kept) \o "}"

normalizeNodeData(rows) ==
    IF Len(rows) = 0 THEN "{}"
    ELSE IF Len(rows) = 1 /\ keyIsFalsy(rows[1]) THEN String(rows[1].value)
    ELSE stringifyObject(collectRows(rows, 1, <<>>))

\* The rows the projection is explored on, and the longest row set.
RowUniverse ==
    {Row(FALSE, "", JNum("42"), "number"),
     Row(FALSE, "", JNull, "object"),
     Row(FALSE, "", JNull, "array"),
     Row(TRUE, "", JStr("v"), "string"),
     Row(TRUE, "a", JNum("1"), "number"),
     Row(TRUE, "b", JStr("x"), "string"),
     Row(TRUE, "o", JNull, "object"),
     Row(TRUE, "l", JNull, "array")}
MaxRows == 2
RowSets == UNION {[1..n -> RowUniverse] : n \in 0..MaxRows}

NotRendered == [done |-> FALSE, code |-> ""]

\* The component renders the projection of nodeRows.
Render ==
    /\ ~rendered.done
    /\ rendered' = [done |-> TRUE, code |-> normalizeNodeData(nodeRows)]
    /\ UNCHANGED <<stores, selectedNode, opened, editing, nameValue, colorValue,
                   last, nodeRows, pathArg, graphIn, pathOut>>

\* The rows of another node are handed to the projection.
NewRows(rows) ==
    /\ rendered.done
    /\ nodeRows' = rows
    /\ rendered' = NotRendered
    /\ UNCHANGED <<stores, selectedNode, opened, editing, nameValue, colorValue,
                   last, pathArg, graphIn, pathOut>>

InitNormalize ==
    /\ json = Doc1
    /\ contents = json
    /\ hasChanges = FALSE
    /\ nodes = setGraph(json)
    /\ selectedNode = NoNode
    /\ opened = TRUE
    /\ editing = FALSE
    /\ nameValue = ""
    /\ colorValue = ""
    /\ last = NoCommit("init", 0)
    /\ nodeRows \in RowSets
    /\ rendered = NotRendered
    /\ pathArg = [defined |-> FALSE, path |-> <<>>]
    /\ graphIn = [path |-> <<>>, more |-> FALSE]
    /\ pathOut = [done |-> FALSE, code |-> "", same |-> FALSE, matched |-> NoNode]

NextNormalize ==
    \/ Render
    \/ \E rows \in RowSets : NewRows(rows)

SpecNormalize == InitNormalize /\ [][NextNormalize]_vars

(***************************************************************************)
(* jsonPathToString and the comparison of paths, applied to the paths of a *)
(* bounded universe                                                        *)
(***************************************************************************)
MaxPathLen == 2

\* An index and a key that are spelt alike, and a key that holds quotes.
Segments == {Idx(1), Key("1"), Key("a"), Key("a\",\"a")}

Paths == UNION {[1..n -> Segments] : n \in 0..MaxPathLen}

PathArgs == {PathArg(FALSE, <<>>)} \cup {PathArg(TRUE, p) : p \in Paths}

GraphIns == [path : Paths, more : BOOLEAN]

NotFormatted == [done |-> FALSE, code |-> "", same |-> FALSE, matched |-> NoNode]

TagRow(tag) == <<Row(TRUE, "tag", JStr(tag), "string")>>

\* The nodes searched: one with the path of graphIn, then (if more) two with the
\* target path.
candidates(g, targetPath) ==
    <<GraphNode(g.path, TagRow("A"))>>
    \o (IF g.more
        THEN <<GraphNode(targetPath, TagRow("B")),
               GraphNode(targetPath, TagRow("C"))>>
        ELSE <<>>)

\* The path is displayed, compared with the first node's and searched for.
FormatPath ==
    /\ ~pathOut.done
    /\ pathOut' =
         [done |-> TRUE,
          code |-> jsonPathToString(pathArg),
          same |-> stringifyPath(graphIn.path) = stringifyPath(orEmpty(pathArg)),
          matched |-> findMatched(candidates(graphIn, orEmpty(pathArg)),
                                  orEmpty(pathArg))]
    /\ UNCHANGED <<stores, selectedNode, opened, editing, nameValue, colorValue,
                   last, nodeRows, rendered, pathArg, graphIn>>

\* Another path and other nodes are handed over.
NewPaths(arg, g) ==
    /\ pathOut.done
    /\ pathArg' = arg
    /\ graphIn' = g
    /\ pathOut' = NotFormatted
    /\ UNCHANGED <<stores, selectedNode, opened, editing, nameValue, colorValue,
                   last, nodeRows, rendered>>

InitPath ==
    /\ json = Doc1
    /\ contents = json
    /\ hasChanges = FALSE
    /\ nodes = setGraph(json)
    /\ selectedNode = NoNode
    /\ opened = TRUE
    /\ editing = FALSE
    /\ nameValue = ""
    /\ colorValue = ""
    /\ last = NoCommit("init", 0)
    /\ nodeRows = <<>>
    /\ rendered = NotRendered
    /\ pathArg \in PathArgs
    /\ graphIn \in GraphIns
    /\ pathOut = NotFormatted

NextPath ==
    \/ FormatPath
    \/ \E arg \in PathArgs, g \in GraphIns : NewPaths(arg, g)

SpecPath == InitPath /\ [][NextPath]_vars

(***************************************************************************)
(* Properties                                                              *)
(***************************************************************************)
Resolves(doc, path) == findNodeAtLocation(doc, path).t # "undefined"

\* The rows the document holds at path: those of the object there, the one
\* keyless row of the scalar there, none when nothing is there.
rowsAt(doc, path) ==
    LET val == findNodeAtLocation(doc, path)
    IN CASE val.t = "object" -> rowsOfObject(val)
         [] val.t \in {"undefined", "array"} -> <<>>
         [] OTHER -> <<Row(FALSE, "", val, val.t)>>

\* The rows of node nd are the rows of document doc at the path of nd.
Fresh(nd, doc) == nd.text = rowsAt(doc, nd.path)

Viewing == opened /\ ~editing

\* The last handler was a Save that published text.
Committed == last.op = "Save" /\ last.out = "published"

\* A successful commit: the selected path resolved in the document when the
\* commit started, and text was published.
SuccessfulCommit == Committed /\ Resolves(last.json0, last.sel0.path)

NamePath(nd) == Append(nd.path, Key("name"))
ColorPath(nd) == Append(nd.path, Key("color"))

\* C1: every commit (Save) issued while Editing ends with the workflow in
\* Viewing, whether or not the edits succeeded and whether or not a node is
\* selected.  Refuted: Save with no node selected returns before it leaves
\* Editing.
C1_CommitEndsInViewing == last.op = "Save" => ~editing

\* C2: whenever the external selection changes, the workflow is reset to
\* Viewing and the name and color drafts are reinitialized from the rows of the
\* newly selected node.  Refuted: the effect reinitializes the drafts and
\* leaves the editing flag as it is.
C2_SelectionChangeResets ==
    last.op = "SelectNode" =>
        /\ ~editing
        /\ nameValue = fieldFromRows(selectedNode.text, "name")
        /\ colorValue = fieldFromRows(selectedNode.text, "color")

\* C3 as claimed: in every Viewing state the rows of the selected node are the
\* rows of the published document at the path of the selected node.  Refuted:
\* another writer of the document leaves the selection as it is, and a commit
\* that misses on reselecting leaves it stale.
C3_ViewingShowsCurrentRows ==
    (Viewing /\ ~selectedNode.isNull) => Fresh(selectedNode, json)

\* C3 as amended: a commit that starts with the rows of the selected node equal
\* to the rows of the document at its path ends in Viewing with the rows of the
\* selected node equal to the rows of the published document at its path.
C3_CommitKeepsSelectionFresh ==
    (last.op = "Save" /\ last.out \in {"published", "threw"}
        /\ Fresh(last.sel0, last.json0))
    => (~editing /\ ~selectedNode.isNull /\ Fresh(selectedNode, json))

\* C3 witness: a commit from a fresh selection published a changed document.
C3_Witness ==
    Committed /\ Fresh(last.sel0, last.json0) /\ json # last.json0

\* C4: on a successful commit the name edit and then the color edit are applied
\* in sequence, the color edit against the text the name edit patched: the text
\* after the name edit reads the name draft at selectedPath+["name"], and the
\* published document reads the name draft there and the color draft at
\* selectedPath+["color"].
C4_SequencedEditsBothTakeEffect ==
    SuccessfulCommit =>
        /\ findNodeAtLocation(last.mid, NamePath(last.sel0)) = JStr(last.name0)
        /\ findNodeAtLocation(json, NamePath(last.sel0)) = JStr(last.name0)
        /\ findNodeAtLocation(json, ColorPath(last.sel0)) = JStr(last.color0)

\* C4 witness: a successful commit inserted a name and a color that differ into
\* a node that had neither.
C4_Witness ==
    /\ SuccessfulCommit
    /\ last.name0 # last.color0
    /\ ~Resolves(last.json0, NamePath(last.sel0))
    /\ ~Resolves(last.json0, ColorPath(last.sel0))

\* The keys of the object at path, in text order.
keysAt(doc, path) ==
    LET obj == findNodeAtLocation(doc, path)
    IN [i \in 1..Len(obj.m) |-> obj.m[i].k]

\* The document without the member field of the object at path.
withoutMember(doc, path, field) ==
    LET obj == findNodeAtLocation(doc, path)
        i == memberIndex(obj, field)
    IN IF obj.t # "object" \/ i = 0 THEN doc
       ELSE replaceNode(doc, path,
                [obj EXCEPT !.m = SubSeq(@, 1, i - 1) \o SubSeq(@, i + 1, Len(@))])

\* The edit of pre into post set field of the object at path to the string val
\* and changed nothing else: the other members, elements and comments are the
\* same, an existing field kept its place, a new field is the last member.
OnlyFieldChanged(pre, post, path, field, val) ==
    /\ findNodeAtLocation(post, Append(path, Key(field))) = JStr(val)
    /\ withoutMember(post, path, field) = withoutMember(pre, path, field)
    /\ keysAt(post, path) =
           IF memberIndex(findNodeAtLocation(pre, path), field) # 0
           THEN keysAt(pre, path)
           ELSE Append(keysAt(pre, path), field)

\* C5: a successful field edit at basePath+[field] changes only that field:
\* the patched document reads the new value there, and every other member,
\* element, key order and comment is as before, for a field that existed and
\* for one that is inserted.  Stated for the name edit and for the color edit
\* of every successful commit.
C5_FieldEditChangesOnlyTheField ==
    SuccessfulCommit =>
        /\ OnlyFieldChanged(last.json0, last.mid, last.sel0.path, "name", last.name0)
        /\ OnlyFieldChanged(last.mid, json, last.sel0.path, "color", last.color0)

\* C5 witness: a successful commit replaced an existing name by another value
\* and inserted a color, in an object that carries a comment.
C5_Witness ==
    /\ SuccessfulCommit
    /\ Resolves(last.json0, NamePath(last.sel0))
    /\ findNodeAtLocation(last.json0, NamePath(last.sel0)) # JStr(last.name0)
    /\ ~Resolves(last.json0, ColorPath(last.sel0))
    /\ findNodeAtLocation(last.json0, last.sel0.path).c # ""

\* C6: Cancel in Editing moves the workflow to Viewing, discards the draft (the
\* drafts are again the name and color of the rows of the selected node), and
\* leaves the published document, the editor contents and the selection
\* unchanged.  Refuted: Cancel keeps what was typed in the drafts.
C6_CancelDiscardsDraft ==
    [][last'.op = "Cancel" =>
          /\ ~editing'
          /\ (~selectedNode.isNull =>
                 /\ nameValue' = fieldFromRows(selectedNode.text, "name")
                 /\ colorValue' = fieldFromRows(selectedNode.text, "color"))
          /\ json' = json
          /\ contents' = contents
          /\ hasChanges' = hasChanges
          /\ selectedNode' = selectedNode]_vars

\* C7: after a successful commit the selection is a node of the graph rebuilt
\* from the published text, and its path is the path of the node that was
\* selected when the commit started.
C7_ReselectsNodeOfRebuiltTree ==
    SuccessfulCommit =>
        /\ \E i \in 1..Len(setGraph(json)) : selectedNode = setGraph(json)[i]
        /\ selectedNode.path = last.sel0.path

\* C7 witness: a successful commit on a node below the root changed the
\* document.
C7_Witness ==
    SuccessfulCommit /\ last.sel0.path # <<>> /\ json # last.json0

\* One field edit of pre into post is all or nothing: the text is as it was, or
\* it reads the value at the target.
AllOrNothing(pre, post, path, val) ==
    post = pre \/ findNodeAtLocation(post, path) = JStr(val)

\* C8: a field edit is all-or-nothing: when it cannot be applied (the selected
\* node is a scalar, the path is out of range) nothing partial is published; the
\* published document after a commit is the text before it or a text holding
\* only fully applied field edits.  Refuted: for a path that is out of range
\* modify appends the value, wrapped, to the nearest array that resolves.
C8_FieldEditAllOrNothing ==
    /\ (last.op = "Save" /\ last.out = "threw") => json = last.json0
    /\ Committed =>
        /\ AllOrNothing(last.json0, last.mid, NamePath(last.sel0), last.name0)
        /\ AllOrNothing(last.mid, json, ColorPath(last.sel0), last.color0)

\* The rows of a set are all of type object or array.
OnlyContainers(rows) == \A i \in 1..Len(rows) : rows[i].type \in {"object", "array"}

\* C9: for every non-empty row set in which every row is of type object or
\* array, a single row without a key included, normalize returns "{}".
\* Refuted: a single row without a key (or with the empty key) is rendered as
\* the string of its value.
C9_OnlyContainersGiveEmptyObject ==
    (rendered.done /\ Len(nodeRows) > 0 /\ OnlyContainers(nodeRows))
        => rendered.code = "{}"

\* The members the claim expects: the rows with a defined key, the empty string
\* included, and a type other than object and array, each mapped to its value.
RECURSIVE flatMembers(_, _, _)
flatMembers(rows, i, obj) ==
    IF i > Len(rows) THEN obj
    ELSE flatMembers(rows, i + 1,
             IF rows[i].hasKey /\ rows[i].type \notin {"object", "array"}
             THEN assign(obj, rows[i].key, rows[i].value)
             ELSE obj)

\* C10: for every row set that is neither empty nor a single row with an
\* undefined key, normalize returns the 2-space pretty-printed object of the
\* rows with a defined key (the empty string included) and a type other than
\* object and array.  Refuted: a row whose key is the empty string is left out.
C10_FlatObjectOfKeyedScalarRows ==
    (rendered.done /\ Len(nodeRows) > 0
        /\ ~(Len(nodeRows) = 1 /\ ~nodeRows[1].hasKey))
        => rendered.code = stringifyObject(flatMembers(nodeRows, 1, <<>>))

(***************************************************************************)
(* The displayed path                                                      *)
(***************************************************************************)
\* The segments of a path, each in brackets, in path order: an index as its
\* digits, a key between double quotes.
RECURSIVE bracketed(_)
bracketed(path) ==
    IF path = <<>> THEN ""
    ELSE "[" \o (IF Head(path).num THEN ToString(Head(path).i)
                 ELSE "\"" \o Head(path).s \o "\"")
             \o "]" \o bracketed(Tail(path))

\* C11: jsonPathToString gives "$" for an undefined or empty path, and
\* otherwise "$" followed by one bracketed segment per path segment, in path
\* order, an index unquoted and a key between double quotes.
C11_PathFormat ==
    pathOut.done =>
        pathOut.code = (IF ~pathArg.defined \/ pathArg.path = <<>>
                        THEN "$"
                        ELSE "$" \o bracketed(pathArg.path))

C11_Witness ==
    /\ pathOut.done
    /\ pathArg.defined
    /\ Len(pathArg.path) = 2
    /\ ~pathArg.path[1].num
    /\ pathArg.path[2].num
    /\ pathOut.code = "$[\"a\"][1]"

(***************************************************************************)
(* Which fields a commit patches                                           *)
(***************************************************************************)
\* C12: a commit issued right after Editing was entered, with both drafts as
\* edit-start left them, publishes nothing new: the document text is unchanged.
C12_UnchangedDraftsLeaveTextUnchanged ==
    [][(last.op = "Edit" /\ last'.op = "Save") => json' = json]_vars

(***************************************************************************)
(* Failures of a field edit                                                *)
(***************************************************************************)
\* The name edit of the last commit threw.
NameEditFailed ==
    /\ last.op = "Save"
    /\ ~last.sel0.isNull
    /\ applyName(last.json0, last.sel0.path, last.name0).threw

\* C13: a commit whose name edit fails goes on to the color edit, and a color
\* edit that succeeds is published.
C13_NameFailureSkipsOnlyName ==
    NameEditFailed =>
        LET c == applyColor(last.json0, last.sel0.path, last.color0)
        IN /\ \E k \in 1..Len(last.steps) : last.steps[k] = "color"
           /\ ~c.threw => json = c.text

(***************************************************************************)
(* The drafts at edit-start                                                *)
(***************************************************************************)
\* C15: right after edit-start the drafts are the name and color row values of
\* the selected node.
C15_EditStartLoadsDrafts ==
    (last.op = "Edit" /\ ~selectedNode.isNull) =>
        /\ nameValue = fieldFromRows(selectedNode.text, "name")
        /\ colorValue = fieldFromRows(selectedNode.text, "color")

(***************************************************************************)
(* Reconciliation miss                                                     *)
(***************************************************************************)
\* The last commit published text whose graph has no node at the target path.
ReconciliationMiss ==
    /\ Committed
    /\ \A i \in 1..Len(nodes) : nodes[i].path # last.sel0.path

\* C16: after a commit that published text whose graph has no node at the
\* target path, the selection is the one the commit started with and the
\* component is in Viewing.
C16_MissKeepsSelection ==
    ReconciliationMiss => (selectedNode = last.sel0 /\ ~editing)

C16_Witness ==
    /\ ReconciliationMiss
    /\ json # last.json0
    /\ ~selectedNode.isNull
    /\ selectedNode = last.sel0
    /\ ~editing

(***************************************************************************)
(* The comparison of paths in the reselection                              *)
(***************************************************************************)
\* C17: the node the reselection finds has the target path, segment by segment
\* (an index 1 is not the key "1"); it is the first node with that path
\* whenever one exists; and two paths have the same serialized form exactly
\* when they are equal.
C17_SerializedComparisonIsStructural ==
    pathOut.done =>
        LET targetPath == orEmpty(pathArg)
            ns == candidates(graphIn, targetPath)
            hits == {i \in 1..Len(ns) : ns[i].path = targetPath}
        IN /\ pathOut.same = (graphIn.path = targetPath)
           /\ ~pathOut.matched.isNull => pathOut.matched.path = targetPath
           /\ hits # {} => pathOut.matched = ns[Min(hits)]
           /\ hits = {} => pathOut.matched.isNull

C17_Witness ==
    /\ pathOut.done
    /\ pathArg = PathArg(TRUE, <<Key("a"), Key("1")>>)
    /\ graphIn = [path |-> <<Key("a"), Idx(1)>>, more |-> TRUE]
    /\ ~pathOut.same
    /\ pathOut.matched = GraphNode(<<Key("a"), Key("1")>>, TagRow("B"))

(***************************************************************************)
(* The two stores a commit writes                                          *)
(***************************************************************************)
\* C19: a commit that publishes text leaves the file store's contents equal to
\* the text of the document store and marked as unchanged; a commit that
\* publishes nothing (it threw, or no node was selected) leaves the document
\* store and the file store as they were.
C19_StoresAgreeAfterCommit ==
    [][last'.op = "Save" =>
          IF last'.out = "published"
          THEN contents' = json' /\ ~hasChanges'
          ELSE UNCHANGED <<json, contents, hasChanges>>]_vars

C19_Witness ==
    /\ Committed
    /\ json # last.json0
    /\ contents = json
    /\ ~hasChanges

(***************************************************************************)
(* The drafts after a change of the selection                              *)
(***************************************************************************)
\* The spellings of a field name that differ in letter case only.
Spellings(field) ==
    IF field = "name" THEN {"name", "Name", "NAME"}
    ELSE {"color", "Color", "COLOR"}

\* The string form of the value of the first row whose key is a spelling of
\* field, "" if there is no such row or its value is null.
RECURSIVE firstValue(_, _)
firstValue(text, field) ==
    IF text = <<>> THEN ""
    ELSE IF Head(text).hasKey /\ Head(text).key \in Spellings(field)
    THEN (IF Head(text).value.t \in {"null", "undefined"} THEN ""
          ELSE String(Head(text).value))
    ELSE firstValue(Tail(text), field)

\* C20: a change of the selection to a node sets the name (color) draft to the
\* string form of the value of the node's first row keyed "name" ("color") in
\* any letter case, or to "" if there is none or its value is null; clearing
\* the selection leaves both drafts as they were.
C20_SelectionChangeLoadsDrafts ==
    [][/\ last'.op = "SelectNode" =>
            /\ nameValue' = firstValue(selectedNode'.text, "name")
            /\ colorValue' = firstValue(selectedNode'.text, "color")
       /\ last'.op = "ClearSelection" =>
            UNCHANGED <<nameValue, colorValue>>]_vars

C20_Witness ==
    /\ last.op = "SelectNode"
    /\ json = Doc3
    /\ selectedNode = GraphNode(<<>>, rowsOfObject(Doc3))
    /\ nameValue = ""
    /\ colorValue = "c"

====
